---- MODULE Spec2Model ----
(***************************************************************************)
(* Model of src/app.py: a gap-fill quiz.  A passage is tokenised on word   *)
(* boundaries, the words an external model selected are replaced by        *)
(* [GAP_i] placeholders, the user types answers and a grade pass scores    *)
(* them.  Text is a sequence of one-character strings, so that tokenising, *)
(* lower-casing, stripping, number formatting and placeholder substitution *)
(* are computed character by character as the Python code computes them.   *)
(***************************************************************************)
EXTENDS Integers, Sequences, FiniteSets, TLC

(***************************************************************************)
(* Characters and the str methods the code uses                            *)
(***************************************************************************)
UpperLetters == <<"A","B","C","D","E","F","G","H","I","J","K","L","M",
                  "N","O","P","Q","R","S","T","U","V","W","X","Y","Z">>
LowerLetters == <<"a","b","c","d","e","f","g","h","i","j","k","l","m",
                  "n","o","p","q","r","s","t","u","v","w","x","y","z">>
Digits == <<"0","1","2","3","4","5","6","7","8","9">>

Range(s) == {s[i] : i \in 1..Len(s)}

UpperSet == Range(UpperLetters)
LowerSet == Range(LowerLetters)
DigitSet == Range(Digits)
Whitespace == {" ", "\n", "\t"}

\* str.lower() on one character
LowerChar(c) ==
    IF c \in UpperSet
    THEN LowerLetters[CHOOSE i \in 1..26 : UpperLetters[i] = c]
    ELSE c

\* str.lower()
Lower(t) == [i \in 1..Len(t) |-> LowerChar(t[i])]

\* the regex class \w
IsWordChar(c) == c \in UpperSet \cup LowerSet \cup DigitSet \cup {"_"}

\* str.strip()
RECURSIVE LStrip(_)
LStrip(t) == IF t # <<>> /\ Head(t) \in Whitespace THEN LStrip(Tail(t)) ELSE t

RECURSIVE RStrip(_)
RStrip(t) ==
    IF t # <<>> /\ t[Len(t)] \in Whitespace
    THEN RStrip(SubSeq(t, 1, Len(t) - 1))
    ELSE t

Strip(t) == RStrip(LStrip(t))

\* "".join(parts)
RECURSIVE Join(_)
Join(parts) == IF parts = <<>> THEN <<>> ELSE Head(parts) \o Join(Tail(parts))

\* x in list
InSeq(x, s) == \E i \in 1..Len(s) : s[i] = x

\* str(n) for n >= 0, as an f-string formats an int
RECURSIVE IntToStr(_)
IntToStr(n) ==
    IF n < 10 THEN <<Digits[n + 1]>>
    ELSE IntToStr(n \div 10) \o <<Digits[(n % 10) + 1]>>

\* f'[GAP_{gap_count}]'
Marker(i) == <<"[", "G", "A", "P", "_">> \o IntToStr(i) \o <<"]">>

\* f'gap_{i}'
GapKey(i) == <<"g", "a", "p", "_">> \o IntToStr(i)

\* int(s) for a string of decimal digits
RECURSIVE StrToInt(_)
StrToInt(d) ==
    IF d = <<>> THEN 0
    ELSE 10 * StrToInt(SubSeq(d, 1, Len(d) - 1))
         + ((CHOOSE k \in 1..10 : Digits[k] = d[Len(d)]) - 1)

StartsWith(text, p, pat) ==
    /\ p + Len(pat) - 1 <= Len(text)
    /\ SubSeq(text, p, p + Len(pat) - 1) = pat

\* the first position at or after q that holds no digit
RECURSIVE DigitRunEnd(_, _)
DigitRunEnd(text, q) ==
    IF q <= Len(text) /\ text[q] \in DigitSet THEN DigitRunEnd(text, q + 1) ELSE q

(***************************************************************************)
(* Tokenising: re.split(r'(\b\w+\b)', text) and re.findall(r'\b\w+\b', text)*)
(***************************************************************************)
\* One scan step of re.split with a capturing group: st.acc holds the parts
\* already closed, st.cur the part being read, st.inWord whether it is a word.
RECURSIVE SplitScan(_, _)
SplitScan(text, st) ==
    IF text = <<>>
    THEN IF st.inWord THEN st.acc \o <<st.cur>> \o << <<>> >>
                      ELSE st.acc \o <<st.cur>>
    ELSE LET c == Head(text) IN
         SplitScan(Tail(text),
            IF IsWordChar(c) = st.inWord
            THEN [st EXCEPT !.cur = st.cur \o <<c>>]
            ELSE [acc |-> st.acc \o <<st.cur>>, cur |-> <<c>>,
                  inWord |-> IsWordChar(c)])

\* parts = re.split(r'(\b\w+\b)', text): separators at odd positions, words
\* at even positions, first and last part always a (possibly empty) separator
Split(text) == SplitScan(text, [acc |-> <<>>, cur |-> <<>>, inWord |-> FALSE])

\* re.findall(r'\b\w+\b', text): the maximal runs of word characters
RECURSIVE FindAllScan(_, _, _)
FindAllScan(text, cur, acc) ==
    IF text = <<>>
    THEN IF cur = <<>> THEN acc ELSE acc \o <<cur>>
    ELSE IF IsWordChar(Head(text))
         THEN FindAllScan(Tail(text), cur \o <<Head(text)>>, acc)
         ELSE FindAllScan(Tail(text), <<>>,
                          IF cur = <<>> THEN acc ELSE acc \o <<cur>>)

FindAll(text) == FindAllScan(text, <<>>, <<>>)

\* re.match(r'\b\w+\b', part): a word starts at the first character
IsWordMatch(part) == part # <<>> /\ IsWordChar(part[1])

(***************************************************************************)
(* create_gap_text                                                         *)
(***************************************************************************)
\* hide_set = {w.lower() for w in words_to_hide}
HideSet(words_to_hide) == {Lower(words_to_hide[i]) : i \in 1..Len(words_to_hide)}

\* mutant: the dedup test is dropped, every matching occurrence is hidden
ShouldHide_everyOccurrence(part, words_to_hide, words_hidden_in_order) ==
    /\ IsWordMatch(part)
    /\ Lower(part) \in HideSet(words_to_hide)

\* mutant: the supplied words are consumed in the order they were supplied
ShouldHide_suppliedOrder(part, words_to_hide, words_hidden_in_order) ==
    /\ IsWordMatch(part)
    /\ Len(words_hidden_in_order) < Len(words_to_hide)
    /\ Lower(part) = Lower(words_to_hide[Len(words_hidden_in_order) + 1])

\* is_word and part.lower() in hide_set and part not in words_hidden_in_order
ShouldHide(part, words_to_hide, words_hidden_in_order) ==
    /\ IsWordMatch(part)
    /\ Lower(part) \in HideSet(words_to_hide)
    /\ ~InSeq(part, words_hidden_in_order)

\* the for loop over parts; st holds the loop's local variables
RECURSIVE GapLoop(_, _, _)
GapLoop(parts, words_to_hide, st) ==
    IF parts = <<>> THEN st
    ELSE LET part == Head(parts) IN
         GapLoop(Tail(parts), words_to_hide,
            IF ShouldHide(part, words_to_hide, st.words_hidden_in_order)
            THEN [new_parts |-> st.new_parts \o <<Marker(st.gap_count)>>,
                  correct_positions |-> st.correct_positions \o <<part>>,
                  words_hidden_in_order |-> st.words_hidden_in_order \o <<part>>,
                  gap_count |-> st.gap_count + 1]
            ELSE [st EXCEPT !.new_parts = st.new_parts \o <<part>>])

\* the local variables of create_gap_text when its loop has ended
GapLocals(text, words_to_hide) ==
    GapLoop(Split(text), words_to_hide,
            [new_parts |-> <<>>, correct_positions |-> <<>>,
             words_hidden_in_order |-> <<>>, gap_count |-> 0])

\* create_gap_text(text, words_to_hide) = (final_gap_text, correct_positions)
create_gap_text(text, words_to_hide) ==
    LET loc == GapLocals(text, words_to_hide) IN
    <<Join(loc.new_parts), loc.correct_positions>>

(***************************************************************************)
(* get_word_info_from_gemini                                               *)
(***************************************************************************)
\* str.replace(pat, ''): every non-overlapping occurrence, left to right
RECURSIVE RemoveAll(_, _)
RemoveAll(text, pat) ==
    IF text = <<>> THEN <<>>
    ELSE IF StartsWith(text, 1, pat)
         THEN RemoveAll(SubSeq(text, Len(pat) + 1, Len(text)), pat)
         ELSE <<Head(text)>> \o RemoveAll(Tail(text), pat)

\* the backquote character, written by name: a literal backquote in the
\* module text would be paired with a later apostrophe by the lexer
Backquote == "backquote"
Fence == <<Backquote, Backquote, Backquote>>
FencePython == Fence \o <<"p", "y", "t", "h", "o", "n">>
FenceJson == Fence \o <<"j", "s", "o", "n">>

\* if response_text.startswith(fence): remove the code-fence markup, strip
StripFences(response_text) ==
    IF StartsWith(response_text, 1, Fence)
    THEN Strip(RemoveAll(RemoveAll(RemoveAll(response_text, FencePython),
                                   FenceJson), Fence))
    ELSE response_text

\* the first position at or after p that holds no blank
RECURSIVE SkipBlanks(_, _)
SkipBlanks(text, p) ==
    IF p <= Len(text) /\ text[p] \in Whitespace THEN SkipBlanks(text, p + 1) ELSE p

\* the first position after p that holds the quote character quote, or 0
RECURSIVE ClosingQuote(_, _, _)
ClosingQuote(text, p, quote) ==
    IF p > Len(text) \/ text[p] \in {"\\", "\n"} THEN 0
    ELSE IF text[p] = quote THEN p
    ELSE ClosingQuote(text, p + 1, quote)

\* one list element at position p: a quoted string without escapes, or a
\* decimal integer; next is the position after it
ParseElement(text, p) ==
    IF p > Len(text) THEN [ok |-> FALSE]
    ELSE IF text[p] \in {"'", "\""}
    THEN LET q == ClosingQuote(text, p + 1, text[p]) IN
         IF q = 0 THEN [ok |-> FALSE]
         ELSE [ok |-> TRUE, next |-> q + 1,
               value |-> [type |-> "str", chars |-> SubSeq(text, p + 1, q - 1)]]
    ELSE IF text[p] \in DigitSet
    THEN LET q == DigitRunEnd(text, p)
             d == SubSeq(text, p, q - 1)
         IN IF (Len(d) > 1 /\ d[1] = "0" /\ StrToInt(d) # 0)
               \/ (q <= Len(text) /\ IsWordChar(text[q]))
            THEN [ok |-> FALSE]
            ELSE [ok |-> TRUE, next |-> q,
                  value |-> [type |-> "int", val |-> StrToInt(d)]]
    ELSE [ok |-> FALSE]

\* the elements of a list display from position p (after '[' or ',') on
RECURSIVE ParseItems(_, _, _)
ParseItems(text, p, acc) ==
    LET q == SkipBlanks(text, p) IN
    IF q > Len(text) THEN [ok |-> FALSE]
    ELSE IF text[q] = "]" THEN [ok |-> TRUE, next |-> q + 1, elems |-> acc]
    ELSE LET e == ParseElement(text, q) IN
         IF ~e.ok THEN [ok |-> FALSE]
         ELSE LET r == SkipBlanks(text, e.next) IN
              IF r > Len(text) THEN [ok |-> FALSE]
              ELSE IF text[r] = "," THEN ParseItems(text, r + 1, acc \o <<e.value>>)
              ELSE IF text[r] = "]"
                   THEN [ok |-> TRUE, next |-> r + 1, elems |-> acc \o <<e.value>>]
              ELSE [ok |-> FALSE]

\* ast.literal_eval(response_text) for the literals a response is made of:
\* kind "list" with its elements, kind "literal" for a literal that is not a
\* list, kind "invalid" when literal_eval raises
literal_eval(response_text) ==
    LET t == RStrip(response_text) IN
    IF t = <<>> THEN [kind |-> "invalid"]
    ELSE IF t[1] = "["
    THEN LET r == ParseItems(t, 2, <<>>) IN
         IF r.ok /\ r.next = Len(t) + 1
         THEN [kind |-> "list", elems |-> r.elems]
         ELSE [kind |-> "invalid"]
    ELSE LET e == ParseElement(t, 1) IN
         IF e.ok /\ e.next = Len(t) + 1
         THEN [kind |-> "literal"]
         ELSE [kind |-> "invalid"]

\* mutant: a response that is no list is read leniently, word by word
ParseResponse_lenient(response_text) ==
    LET t == StripFences(response_text)
        lit == literal_eval(t)
        words == FindAll(t)
    IN IF lit.kind = "list"
       THEN [ok |-> TRUE, extracted_words_from_api |-> lit.elems]
       ELSE [ok |-> TRUE,
             extracted_words_from_api |->
                [i \in 1..Len(words) |-> [type |-> "str", chars |-> words[i]]]]

\* the second try block: fence stripping, literal_eval, isinstance(.., list)
ParseResponse(response_text) ==
    LET lit == literal_eval(StripFences(response_text)) IN
    IF lit.kind = "list"
    THEN [ok |-> TRUE, extracted_words_from_api |-> lit.elems]
    ELSE [ok |-> FALSE, extracted_words_from_api |-> <<>>]

\* {w.lower() for w in extracted_words_from_api}; only a str has .lower()
ApiWordsLower(extracted_words_from_api) ==
    {Lower(extracted_words_from_api[i].chars) : i \in 1..Len(extracted_words_from_api)}

AllStrings(extracted_words_from_api) ==
    \A i \in 1..Len(extracted_words_from_api) : extracted_words_from_api[i].type = "str"

\* mutant: the words are collected in the order of the response
RECURSIVE ExtractWords_responseOrder(_, _, _)
ExtractWords_responseOrder(all_words, extracted_words_from_api, final) ==
    IF extracted_words_from_api = <<>> THEN final
    ELSE LET w == Head(extracted_words_from_api).chars
             hits == {k \in 1..Len(all_words) : Lower(all_words[k]) = Lower(w)}
         IN ExtractWords_responseOrder(all_words, Tail(extracted_words_from_api),
               IF hits = {} \/ InSeq(all_words[CHOOSE k \in hits : \A j \in hits : k <= j], final)
               THEN final
               ELSE final \o <<all_words[CHOOSE k \in hits : \A j \in hits : k <= j]>>)

\* for word in all_words: if word.lower() in api_words_lower and word not in
\* final_extracted_words_original_order: append
RECURSIVE ExtractWords(_, _, _)
ExtractWords(all_words, extracted_words_from_api, final) ==
    IF all_words = <<>> THEN final
    ELSE LET word == Head(all_words) IN
         ExtractWords(Tail(all_words), extracted_words_from_api,
            IF Lower(word) \in ApiWordsLower(extracted_words_from_api)
               /\ ~InSeq(word, final)
            THEN final \o <<word>>
            ELSE final)

\* get_word_info_from_gemini(text, num_words) with the secrets and the
\* service's answer as further inputs.  outcome names the message shown,
\* requested whether generate_content was called, original and shuffled
\* the two returned lists (not returned when outcome is "exception").
get_word_info_from_gemini(text, num_words, key_present, response) ==
    LET none == [original |-> <<>>, shuffled |-> <<>>] IN
    IF ~key_present
    THEN none @@ [outcome |-> "error_no_key", requested |-> FALSE]
    ELSE IF response.kind = "client_error"
    THEN none @@ [outcome |-> "error_client", requested |-> FALSE]
    ELSE IF response.kind = "api_error"
    THEN none @@ [outcome |-> "error_api", requested |-> TRUE]
    ELSE LET parsed == ParseResponse(Strip(response.text)) IN
         IF ~parsed.ok
         THEN none @@ [outcome |-> "warning_parse", requested |-> TRUE]
         ELSE IF ~AllStrings(parsed.extracted_words_from_api)
         THEN none @@ [outcome |-> "exception", requested |-> TRUE]
         ELSE LET final == ExtractWords(FindAll(text),
                                        parsed.extracted_words_from_api, <<>>)
              IN [original |-> final, shuffled |-> final,
                  outcome |-> "returned", requested |-> TRUE]

(***************************************************************************)
(* The grade button handler                                                *)
(***************************************************************************)
\* dict.get(key, "")
DictGet(d, key) == IF key \in DOMAIN d THEN d[key] ELSE <<>>

\* d[key] = value
DictSet(d, key, value) ==
    [k \in (DOMAIN d) \cup {key} |-> IF k = key THEN value ELSE d[k]]

\* mutant: the answer is read without .strip()
UserWord_unstripped(answers, i) == DictGet(answers, GapKey(i))

\* user_word = st.session_state.user_answers.get(f'gap_{i}', "").strip()
UserWord(answers, i) == Strip(DictGet(answers, GapKey(i)))

\* mutant: the comparison keeps letter case
IsMatch_exact(user_word, correct_word) == user_word = correct_word

\* user_word.lower() == correct_word.lower()
IsMatch(user_word, correct_word) == Lower(user_word) = Lower(correct_word)

\* one feedback line; the f-strings carry the gap number i+1, the verdict,
\* the answer and, for a wrong answer, the correct word
FeedbackLine(i, user_word, correct_word) ==
    IF user_word = <<>>
    THEN [gap |-> i + 1, verdict |-> "unanswered"]
    ELSE IF IsMatch(user_word, correct_word)
    THEN [gap |-> i + 1, verdict |-> "correct", user_word |-> user_word]
    ELSE [gap |-> i + 1, verdict |-> "incorrect", user_word |-> user_word,
          correct_word |-> correct_word]

\* mutant: score += 1 sits before the comparison, every answered gap counts
RECURSIVE GradeLoop_countsAnswered(_, _, _, _)
GradeLoop_countsAnswered(correct, answers, i, st) ==
    IF i >= Len(correct) THEN st
    ELSE LET user_word == UserWord(answers, i)
             correct_word == correct[i + 1]
             line == FeedbackLine(i, user_word, correct_word)
         IN GradeLoop_countsAnswered(correct, answers, i + 1,
               [score |-> st.score + (IF line.verdict # "unanswered" THEN 1 ELSE 0),
                feedback |-> st.feedback \o <<line>>,
                is_complete |-> st.is_complete /\ line.verdict # "unanswered"])

\* the for loop over enumerate(correct_answers), from index i on
RECURSIVE GradeLoop(_, _, _, _)
GradeLoop(correct, answers, i, st) ==
    IF i >= Len(correct) THEN st
    ELSE LET user_word == UserWord(answers, i)
             correct_word == correct[i + 1]
             line == FeedbackLine(i, user_word, correct_word)
         IN GradeLoop(correct, answers, i + 1,
               [score |-> st.score + (IF line.verdict = "correct" THEN 1 ELSE 0),
                feedback |-> st.feedback \o <<line>>,
                is_complete |-> st.is_complete /\ line.verdict # "unanswered"])

\* score, feedback and is_complete as the handler computes them
GradeAnswers(correct, answers) ==
    GradeLoop(correct, answers, 0,
              [score |-> 0, feedback |-> <<>>, is_complete |-> TRUE])

(***************************************************************************)
(* Bounds and input sets                                                   *)
(***************************************************************************)
\* longest passage, in pieces
MaxPieces == 3
\* longest list of words to hide
MaxWords == 2

T_the == <<"t", "h", "e">>
T_The == <<"T", "h", "e">>
T_cat == <<"c", "a", "t">>
T_GAP0 == <<"G", "A", "P", "_", "0">>
T_space == <<" ">>

\* all sequences over S of length 0..n
SeqsUpTo(S, n) == UNION {[1..k -> S] : k \in 0..n}

\* the pieces passages are assembled from; the last one is placeholder-shaped
PassagePieces == {T_the, T_The, T_cat, T_space, Marker(0)}
Passages == {Join(ps) : ps \in SeqsUpTo(PassagePieces, MaxPieces)}

\* the passages the selection is applied to: words in both cases and blanks
SelectPassages == {Join(ps) : ps \in SeqsUpTo({T_the, T_The, T_cat, T_space}, MaxPieces)}

WordVocabulary == {T_the, T_The, T_cat, T_GAP0}
WordLists == SeqsUpTo(WordVocabulary, MaxWords)

\* a response text as the service writes a list of words: ['w1', 'w2']
RECURSIVE FormatItems(_)
FormatItems(ws) ==
    IF ws = <<>> THEN <<>>
    ELSE <<"'">> \o Head(ws) \o <<"'">>
         \o (IF Len(ws) > 1 THEN <<",", " ">> ELSE <<>>) \o FormatItems(Tail(ws))

FormatList(ws) == <<"[">> \o FormatItems(ws) \o <<"]">>

\* the same text wrapped in code-fence markup
Fenced(opening, t) == opening \o <<"\n">> \o t \o <<"\n">> \o Fence

T_not_a_list == <<"n", "o", "t", " ", "a", " ", "l", "i", "s", "t">>

\* responses that are no list of strings: prose, a bare string, a number, an
\* unterminated list, nothing at all, fenced prose, lists holding a number
OddResponseTexts ==
    { T_not_a_list,
      <<"'">> \o T_the \o <<"'">>,
      <<"7">>,
      <<"[", "'">> \o T_the \o <<"'">>,
      <<>>,
      Fenced(Fence, T_not_a_list),
      <<"[", "7", "]">>,
      <<"[", "'">> \o T_the \o <<"'", ",", " ", "7", "]">> }

ResponseTexts ==
    {FormatList(ws) : ws \in WordLists}
    \cup {Fenced(FencePython, FormatList(ws)) : ws \in SeqsUpTo(WordVocabulary, 1)}
    \cup {<<" ">> \o Fenced(FenceJson, FormatList(ws)) : ws \in SeqsUpTo(WordVocabulary, 1)}
    \cup OddResponseTexts

\* what the service call yields: the client cannot be built, the call
\* raises, or a response with a text comes back
Responses ==
    {[kind |-> "client_error", text |-> <<>>], [kind |-> "api_error", text |-> <<>>]}
    \cup {[kind |-> "text", text |-> t] : t \in ResponseTexts}

\* values of num_words a caller may pass
NumWordsChoices == {0, 1}

\* most gaps of a graded answer list
MaxGaps == 2

T_Cat == <<"C", "a", "t">>
GradeVocabulary == {T_Cat, T_the}
CorrectLists == SeqsUpTo(GradeVocabulary, MaxGaps)
GradeAnswerChoices == {<<>>, T_space, T_cat, <<" ">> \o T_the \o <<" ">>, T_The}

\* every dict that holds an answer for some of the gaps 0..n-1
AnswerDicts(n) ==
    UNION {[K -> GradeAnswerChoices] : K \in SUBSET {GapKey(i) : i \in 0..(n - 1)}}

\* the session: what the user may put in the text area, what the service
\* may answer, what the user may type into a gap, where the slider may stand
SessionPassages ==
    { <<>>, T_space,
      T_the \o T_space \o T_cat,
      T_The \o T_space \o T_the,
      Marker(0) \o T_space \o T_cat }
SessionResponses ==
    {[kind |-> "client_error", text |-> <<>>], [kind |-> "api_error", text |-> <<>>]}
    \cup {[kind |-> "text", text |-> t] :
            t \in { T_not_a_list,
                    Fenced(Fence, T_not_a_list),
                    <<"'">> \o T_the \o <<"'">>,
                    <<"[", "7", "]">>,
                    FormatList(<<T_the>>),
                    FormatList(<<T_cat, T_the>>),
                    FormatList(<<T_GAP0>>),
                    Fenced(FencePython, FormatList(<<T_cat>>)) }}
SessionAnswerChoices == {<<>>, T_space, T_the, <<"C", "A", "T">>}
SliderValues == {1, 25}

\* Python's None, and a value that is not None
None == <<>>
Some(x) == <<x>>

(***************************************************************************)
(* State                                                                   *)
(***************************************************************************)
VARIABLES
    \* st.session_state
    test_started, score, user_answers, correct_answers, shuffled_words,
    gap_text_display, feedback, is_complete, extracted_words_original_order,
    \* st.secrets holds the API key; the text area; what the service yielded
    \* at the last call; the message the last handler run showed
    key_present, user_input, response, outcome,
    \* whether the last handler run sent a request to the service
    service_called,
    \* one call of create_gap_text: arguments, locals, return value
    gt_text, gt_words_to_hide, gt_new_parts, gt_final_gap_text,
    gt_correct_positions, gt_pc,
    \* one call of get_word_info_from_gemini: arguments, service answer, result
    sel_text, sel_num_words, sel_response, sel_result, sel_pc,
    \* one grading pass: correct answers, answer dict, result
    gr_correct_answers, gr_user_answers, gr_result, gr_pc

sessionVars == <<test_started, score, user_answers, correct_answers,
                 shuffled_words, gap_text_display, feedback, is_complete,
                 extracted_words_original_order>>
uiVars == <<key_present, user_input, response, outcome, service_called>>
gapVars == <<gt_text, gt_words_to_hide, gt_new_parts, gt_final_gap_text,
             gt_correct_positions, gt_pc>>
selVars == <<sel_text, sel_num_words, sel_response, sel_result, sel_pc>>
gradeVars == <<gr_correct_answers, gr_user_answers, gr_result, gr_pc>>

vars == <<sessionVars, uiVars, gapVars, selVars, gradeVars>>

\* the values the initialisation block gives the session keys
SessionDefaults ==
    /\ test_started = FALSE
    /\ score = None
    /\ user_answers = <<>>
    /\ correct_answers = <<>>
    /\ shuffled_words = <<>>
    /\ gap_text_display = <<>>
    /\ feedback = <<>>
    /\ is_complete = FALSE
    /\ extracted_words_original_order = <<>>

NoResponse == [kind |-> "none", text |-> <<>>]
NoResult == [outcome |-> "none", requested |-> FALSE,
             original |-> <<>>, shuffled |-> <<>>]
NoGrade == [score |-> 0, feedback |-> <<>>, is_complete |-> FALSE]

SessionIdle ==
    /\ SessionDefaults
    /\ key_present = TRUE
    /\ user_input = <<>>
    /\ response = NoResponse
    /\ outcome = "none"
    /\ service_called = FALSE

GapIdle ==
    /\ gt_text = <<>>
    /\ gt_words_to_hide = <<>>
    /\ gt_new_parts = <<>>
    /\ gt_final_gap_text = <<>>
    /\ gt_correct_positions = <<>>
    /\ gt_pc = "idle"

SelIdle ==
    /\ sel_text = <<>>
    /\ sel_num_words = 1
    /\ sel_response = NoResponse
    /\ sel_result = NoResult
    /\ sel_pc = "idle"

GradeIdle ==
    /\ gr_correct_answers = <<>>
    /\ gr_user_answers = <<>>
    /\ gr_result = NoGrade
    /\ gr_pc = "idle"

(***************************************************************************)
(* Specification SpecGap: create_gap_text applied to every bounded input   *)
(***************************************************************************)
InitGap ==
    /\ gt_text \in Passages
    /\ gt_words_to_hide \in WordLists
    /\ gt_new_parts = <<>>
    /\ gt_final_gap_text = <<>>
    /\ gt_correct_positions = <<>>
    /\ gt_pc = "call"
    /\ SessionIdle /\ SelIdle /\ GradeIdle

CallCreateGapText ==
    /\ gt_pc = "call"
    /\ LET loc == GapLocals(gt_text, gt_words_to_hide)
           ret == create_gap_text(gt_text, gt_words_to_hide)
       IN /\ gt_new_parts' = loc.new_parts
          /\ gt_final_gap_text' = ret[1]
          /\ gt_correct_positions' = ret[2]
    /\ gt_pc' = "done"
    /\ UNCHANGED <<gt_text, gt_words_to_hide>>
    /\ UNCHANGED <<sessionVars, uiVars, selVars, gradeVars>>

NextGap == CallCreateGapText

SpecGap == InitGap /\ [][NextGap]_vars

(***************************************************************************)
(* Specification SpecSelect: get_word_info_from_gemini applied to every    *)
(* bounded passage and service answer                                      *)
(***************************************************************************)
InitSelect ==
    /\ sel_text \in SelectPassages
    /\ sel_num_words \in NumWordsChoices
    /\ sel_response \in Responses
    /\ sel_result = NoResult
    /\ sel_pc = "call"
    /\ SessionIdle /\ GapIdle /\ GradeIdle

CallGetWordInfo ==
    /\ sel_pc = "call"
    /\ sel_result' = get_word_info_from_gemini(sel_text, sel_num_words, TRUE,
                                               sel_response)
    /\ sel_pc' = "done"
    /\ UNCHANGED <<sel_text, sel_num_words, sel_response>>
    /\ UNCHANGED <<sessionVars, uiVars, gapVars, gradeVars>>

NextSelect == CallGetWordInfo

SpecSelect == InitSelect /\ [][NextSelect]_vars

(***************************************************************************)
(* Specification SpecGrade: the grading pass applied to every bounded list *)
(* of correct answers and answer dict, also dicts with keys missing        *)
(***************************************************************************)
InitGrade ==
    /\ gr_correct_answers \in CorrectLists
    /\ gr_user_answers \in AnswerDicts(Len(gr_correct_answers))
    /\ gr_result = NoGrade
    /\ gr_pc = "call"
    /\ SessionIdle /\ GapIdle /\ SelIdle

CallGrade ==
    /\ gr_pc = "call"
    /\ gr_result' = GradeAnswers(gr_correct_answers, gr_user_answers)
    /\ gr_pc' = "done"
    /\ UNCHANGED <<gr_correct_answers, gr_user_answers>>
    /\ UNCHANGED <<sessionVars, uiVars, gapVars, selVars>>

NextGrade == CallGrade

SpecGrade == InitGrade /\ [][NextGrade]_vars

(***************************************************************************)
(* Specification Spec: one browser session                                 *)
(***************************************************************************)
Init ==
    /\ SessionDefaults
    /\ key_present \in BOOLEAN
    /\ user_input = <<>>
    /\ response = NoResponse
    /\ outcome = "none"
    /\ service_called = FALSE
    /\ GapIdle /\ SelIdle /\ GradeIdle

\* a reset that forgets the score key
ResetSession_keepsScore ==
    /\ test_started' = FALSE
    /\ score' = score
    /\ user_answers' = <<>>
    /\ correct_answers' = <<>>
    /\ shuffled_words' = <<>>
    /\ gap_text_display' = <<>>
    /\ feedback' = <<>>
    /\ is_complete' = FALSE
    /\ extracted_words_original_order' = <<>>

\* lines 136-144: every session key back to its default
ResetSession ==
    /\ test_started' = FALSE
    /\ score' = None
    /\ user_answers' = <<>>
    /\ correct_answers' = <<>>
    /\ shuffled_words' = <<>>
    /\ gap_text_display' = <<>>
    /\ feedback' = <<>>
    /\ is_complete' = FALSE
    /\ extracted_words_original_order' = <<>>

\* lines 151-159: the session of a test that has just been generated
StartTest(passage, result) ==
    LET built == create_gap_text(passage, result.original)
        num_gaps == Len(built[2])
    IN /\ test_started' = TRUE
       /\ score' = None
       /\ shuffled_words' = result.shuffled
       /\ extracted_words_original_order' = result.original
       /\ gap_text_display' = built[1]
       /\ correct_answers' = built[2]
       /\ user_answers' = [k \in {GapKey(i) : i \in 0..(num_gaps - 1)} |-> <<>>]
       /\ feedback' = <<>>
       /\ is_complete' = FALSE

\* line 132: the text area holds nothing but whitespace
IsEmptyInput_unstripped(passage) == passage = <<>>

IsEmptyInput(passage) == Strip(passage) = <<>>

\* the "start test / reset" button is pressed with the text area holding
\* passage, the slider at num_words_to_extract, and the service yielding resp
Generate ==
    \E passage \in SessionPassages, resp \in SessionResponses,
       num_words_to_extract \in SliderValues :
        /\ user_input' = passage
        /\ IF IsEmptyInput(passage)
           THEN /\ outcome' = "warning_empty_input"
                /\ service_called' = FALSE
                /\ UNCHANGED <<sessionVars, response>>
           ELSE IF ~key_present
           THEN /\ outcome' = "error_no_key"
                /\ service_called' = FALSE
                /\ UNCHANGED <<sessionVars, response>>
           ELSE LET result == get_word_info_from_gemini(passage,
                                 num_words_to_extract, key_present, resp)
                IN /\ response' = resp
                   /\ service_called' = result.requested
                   /\ IF result.outcome = "returned" /\ result.original # <<>>
                      THEN /\ StartTest(passage, result)
                           /\ outcome' = "started"
                      ELSE /\ ResetSession
                           /\ outcome' = IF result.outcome = "returned"
                                         THEN "no_words" ELSE result.outcome
        /\ UNCHANGED <<key_present, gapVars, selVars, gradeVars>>

\* the user types answer into the text input of gap i; the rerun stores it
EditAnswer ==
    /\ test_started /\ correct_answers # <<>>
    /\ \E i \in 0..(Len(correct_answers) - 1), answer \in SessionAnswerChoices :
          user_answers' = DictSet(user_answers, GapKey(i), answer)
    /\ outcome' = "answer_saved"
    /\ service_called' = FALSE
    /\ UNCHANGED <<test_started, score, correct_answers, shuffled_words,
                   gap_text_display, feedback, is_complete,
                   extracted_words_original_order>>
    /\ UNCHANGED <<key_present, user_input, response, gapVars, selVars, gradeVars>>

\* a grade handler that leaves the feedback of an earlier grading in place
Grade_keepsFeedback ==
    /\ test_started /\ correct_answers # <<>>
    /\ LET result == GradeAnswers(correct_answers, user_answers) IN
          /\ score' = Some(result.score)
          /\ feedback' = IF feedback = <<>> THEN result.feedback ELSE feedback
          /\ is_complete' = result.is_complete
    /\ outcome' = "graded"
    /\ service_called' = FALSE
    /\ UNCHANGED <<test_started, user_answers, correct_answers, shuffled_words,
                   gap_text_display, extracted_words_original_order>>
    /\ UNCHANGED <<key_present, user_input, response, gapVars, selVars, gradeVars>>

\* a grade handler that also writes the stripped answers back
Grade_storesStripped ==
    /\ test_started /\ correct_answers # <<>>
    /\ LET result == GradeAnswers(correct_answers, user_answers) IN
          /\ score' = Some(result.score)
          /\ feedback' = result.feedback
          /\ is_complete' = result.is_complete
    /\ user_answers' = [k \in DOMAIN user_answers |-> Strip(user_answers[k])]
    /\ outcome' = "graded"
    /\ service_called' = FALSE
    /\ UNCHANGED <<test_started, correct_answers, shuffled_words,
                   gap_text_display, extracted_words_original_order>>
    /\ UNCHANGED <<key_present, user_input, response, gapVars, selVars, gradeVars>>

\* the grade button is pressed
Grade ==
    /\ test_started /\ correct_answers # <<>>
    /\ LET result == GradeAnswers(correct_answers, user_answers) IN
          /\ score' = Some(result.score)
          /\ feedback' = result.feedback
          /\ is_complete' = result.is_complete
    /\ outcome' = "graded"
    /\ service_called' = FALSE
    /\ UNCHANGED <<test_started, user_answers, correct_answers, shuffled_words,
                   gap_text_display, extracted_words_original_order>>
    /\ UNCHANGED <<key_present, user_input, response, gapVars, selVars, gradeVars>>

Next == Generate \/ EditAnswer \/ Grade

Spec == Init /\ [][Next]_vars

(***************************************************************************)
(* Reading a display text back: where its placeholders are, and what it    *)
(* becomes when every placeholder is replaced by its answer                *)
(***************************************************************************)
\* the index i when the placeholder [GAP_i] starts at position p, else -1
PlaceholderAt(text, p) ==
    IF ~StartsWith(text, p, <<"[", "G", "A", "P", "_">>) THEN -1
    ELSE LET q == DigitRunEnd(text, p + 5)
             d == SubSeq(text, p + 5, q - 1)
         IN IF /\ q > p + 5
               /\ q <= Len(text)
               /\ text[q] = "]"
               /\ Marker(StrToInt(d)) = SubSeq(text, p, q)
            THEN StrToInt(d) ELSE -1

PlaceholderOccurrences(text) == {p \in 1..Len(text) : PlaceholderAt(text, p) >= 0}

\* the text from position p on, each placeholder [GAP_i] replaced by answers[i]
RECURSIVE SubstituteFrom(_, _, _)
SubstituteFrom(text, p, answers) ==
    IF p > Len(text) THEN <<>>
    ELSE LET i == PlaceholderAt(text, p) IN
         IF i >= 0 /\ i < Len(answers)
         THEN answers[i + 1] \o SubstituteFrom(text, p + Len(Marker(i)), answers)
         ELSE <<text[p]>> \o SubstituteFrom(text, p + 1, answers)

Substitute(text, answers) == SubstituteFrom(text, 1, answers)

\* the indices of the parts that are words to hide, by case-insensitive match
HideCandidates(parts, words) ==
    {k \in 1..Len(parts) : IsWordMatch(parts[k])
                           /\ \E i \in 1..Len(words) : Lower(words[i]) = Lower(parts[k])}

\* part k is the first part with its surface form
FirstOccurrence(parts, k) == \A j \in 1..(k - 1) : parts[j] # parts[k]

\* the elements of s at the indices in K, in increasing index order
RECURSIVE Pick(_, _, _)
Pick(s, K, k) ==
    IF k > Len(s) THEN <<>>
    ELSE (IF k \in K THEN <<s[k]>> ELSE <<>>) \o Pick(s, K, k + 1)

\* every reordering of the sequence s
Reorderings(s) ==
    {[i \in 1..Len(s) |-> s[f[i]]] : f \in Permutations(1..Len(s))}

(***************************************************************************)
(* Claims about create_gap_text (specification SpecGap)                    *)
(***************************************************************************)
\* C1: the number of [GAP_i] placeholders in the display text equals the
\* number of answers, and the indices 0..n-1 each occur exactly once, for
\* every passage, also one that itself contains "[GAP_0]".
C1_PlaceholderCount ==
    gt_pc = "done" =>
        LET occ == PlaceholderOccurrences(gt_final_gap_text)
            n == Len(gt_correct_positions)
        IN /\ Cardinality(occ) = n
           /\ \A i \in 0..(n - 1) :
                Cardinality({p \in occ : PlaceholderAt(gt_final_gap_text, p) = i}) = 1

\* C2: putting answer i back in place of each placeholder [GAP_i] of the
\* display text gives the original passage, character for character.
C2_RoundTrip ==
    gt_pc = "done" => Substitute(gt_final_gap_text, gt_correct_positions) = gt_text

\* C3: of the occurrences of a word to hide that share one surface form, the
\* first in the passage becomes a placeholder and every later one stays
\* literal text, also when the word is listed twice; its surface form is an
\* answer exactly once.
C3_FirstOccurrenceWins ==
    gt_pc = "done" =>
        LET parts == Split(gt_text) IN
        /\ Len(gt_new_parts) = Len(parts)
        /\ \A k \in HideCandidates(parts, gt_words_to_hide) :
            /\ FirstOccurrence(parts, k) =>
                 \E i \in 0..(Len(gt_correct_positions) - 1) :
                    /\ gt_new_parts[k] = Marker(i)
                    /\ gt_correct_positions[i + 1] = parts[k]
            /\ ~FirstOccurrence(parts, k) => gt_new_parts[k] = parts[k]
            /\ Cardinality({i \in 1..Len(gt_correct_positions) :
                              gt_correct_positions[i] = parts[k]}) = 1

\* C3 witness: a word listed twice occurs twice with one surface form; the first
\* occurrence is a placeholder and the second is still literal text.
C3_Witness ==
    /\ gt_pc = "done"
    /\ Len(gt_words_to_hide) = 2
    /\ gt_words_to_hide[1] = gt_words_to_hide[2]
    /\ \E j, k \in 1..Len(gt_new_parts) :
        /\ j < k
        /\ Split(gt_text)[j] = gt_words_to_hide[1]
        /\ Split(gt_text)[k] = gt_words_to_hide[1]
        /\ gt_new_parts[j] = Marker(0)
        /\ gt_new_parts[k] = gt_words_to_hide[1]

\* C4: every reordering of the words to hide gives the same display text and
\* the same answers, and answer i is the surface text of the i-th hidden
\* word counted left to right in the passage.
C4_PassageOrder ==
    gt_pc = "done" =>
        LET parts == Split(gt_text)
            hidden == {k \in 1..Len(parts) : gt_new_parts[k] # parts[k]}
        IN /\ \A ws \in Reorderings(gt_words_to_hide) :
                create_gap_text(gt_text, ws) = <<gt_final_gap_text, gt_correct_positions>>
           /\ gt_correct_positions = Pick(parts, hidden, 1)
           /\ \A k \in hidden :
                gt_new_parts[k] = Marker(Cardinality({j \in hidden : j < k}))

\* C4 witness: two words supplied in the opposite of their passage order are
\* both hidden, and gap 0 is the one that comes first in the passage.
C4_Witness ==
    /\ gt_pc = "done"
    /\ Len(gt_words_to_hide) = 2
    /\ Len(gt_correct_positions) = 2
    /\ gt_correct_positions[1] = gt_words_to_hide[2]
    /\ gt_correct_positions[2] = gt_words_to_hide[1]
    /\ gt_words_to_hide[1] # gt_words_to_hide[2]

(***************************************************************************)
(* Claims about the generate action (specification Spec)                   *)
(***************************************************************************)
\* the messages of a generate action that failed: the client or the call
\* raised, the response did not parse, no returned word is in the passage
GenerateFailures == {"error_client", "error_api", "warning_parse", "no_words"}

\* the messages of a generate action that got as far as asking the service
GenerateCalled == GenerateFailures \cup {"exception", "started"}

\* C5: a generate action that fails leaves every session field as it was
\* before the button was pressed.
C5_FailedGenerateKeepsSession ==
    [][outcome' \in GenerateFailures => UNCHANGED sessionVars]_vars

\* the last generate action received a response text that, fences stripped,
\* is no valid literal or is a literal that is no list
MalformedResponse ==
    /\ outcome \in GenerateCalled
    /\ response.kind = "text"
    /\ literal_eval(StripFences(Strip(response.text))).kind # "list"

\* C6: after a generate action whose response is malformed the parse warning
\* is shown, the selection returned no word, and the session holds no
\* placeholder, no correct answer, no word list and no started test.
C6_MalformedResponseNoGaps ==
    MalformedResponse =>
        /\ outcome = "warning_parse"
        /\ \A n \in SliderValues :
              get_word_info_from_gemini(user_input, n, key_present, response).original = <<>>
        /\ ~test_started
        /\ gap_text_display = <<>>
        /\ PlaceholderOccurrences(gap_text_display) = {}
        /\ correct_answers = <<>>
        /\ extracted_words_original_order = <<>>
        /\ user_answers = <<>>

\* C6 witness: the response "not a list" came back for a passage with words.
C6_Witness ==
    /\ MalformedResponse
    /\ response.text = T_not_a_list
    /\ FindAll(user_input) # <<>>
    /\ outcome = "warning_parse"

(***************************************************************************)
(* Claims about grading (specification SpecGrade)                          *)
(***************************************************************************)
\* gap i has no answer: its key is absent, or its text is empty or blank
Unanswered(answers, i) ==
    \/ GapKey(i) \notin DOMAIN answers
    \/ \A k \in 1..Len(answers[GapKey(i)]) : answers[GapKey(i)][k] \in Whitespace

UnansweredGaps == {i \in 0..(Len(gr_correct_answers) - 1) : Unanswered(gr_user_answers, i)}

\* C7: a gap whose answer is absent, empty or blank is recorded as
\* unanswered and is not counted in the score, is_complete is false as soon
\* as there is one such gap whatever the other answers are, and is_complete
\* is true exactly when there is none.
C7_GradingCompleteness ==
    gr_pc = "done" =>
        /\ Len(gr_result.feedback) = Len(gr_correct_answers)
        /\ \A i \in UnansweredGaps : gr_result.feedback[i + 1].verdict = "unanswered"
        /\ \A i \in 0..(Len(gr_correct_answers) - 1) :
              gr_result.feedback[i + 1].verdict = "unanswered" => i \in UnansweredGaps
        /\ gr_result.score <= Len(gr_correct_answers) - Cardinality(UnansweredGaps)
        /\ gr_result.score =
              Cardinality({i \in 0..(Len(gr_correct_answers) - 1) :
                              i \notin UnansweredGaps
                              /\ gr_result.feedback[i + 1].verdict = "correct"})
        /\ gr_result.is_complete <=> UnansweredGaps = {}

\* C7 witness: of two gaps one is answered correctly, the other has a missing
\* key or a blank answer; the result is incomplete with score 1.
C7_Witness ==
    /\ gr_pc = "done"
    /\ Len(gr_correct_answers) = 2
    /\ GapKey(0) \in DOMAIN gr_user_answers
    /\ gr_result.feedback[1].verdict = "correct"
    /\ (GapKey(1) \notin DOMAIN gr_user_answers \/ gr_user_answers[GapKey(1)] = T_space)
    /\ gr_result.feedback[2].verdict = "unanswered"
    /\ ~gr_result.is_complete
    /\ gr_result.score = 1

\* the answered gaps whose answer differs from the correct word in letter
\* case only
CaseOnlyGaps ==
    {i \in 0..(Len(gr_correct_answers) - 1) :
        /\ ~Unanswered(gr_user_answers, i)
        /\ Strip(gr_user_answers[GapKey(i)]) # gr_correct_answers[i + 1]
        /\ Lower(Strip(gr_user_answers[GapKey(i)])) = Lower(gr_correct_answers[i + 1])}

\* C8 as stated: whichever case policy the caller selects, an answer that
\* differs in letter case only is a match under the case-insensitive policy
\* and a mismatch under the case-sensitive one.
C8_BothCasePolicies ==
    gr_pc = "done" =>
        \A caseSensitive \in BOOLEAN : \A i \in CaseOnlyGaps :
            gr_result.feedback[i + 1].verdict =
                (IF caseSensitive THEN "incorrect" ELSE "correct")

\* C8 amended: grading has one policy, the case-insensitive one: an answered
\* gap is a match exactly when answer and correct word are equal after
\* lower-casing, so an answer that differs in letter case only is a match.
C8_CaseInsensitiveOnly ==
    gr_pc = "done" =>
        /\ \A i \in CaseOnlyGaps : gr_result.feedback[i + 1].verdict = "correct"
        /\ \A i \in 0..(Len(gr_correct_answers) - 1) :
              ~Unanswered(gr_user_answers, i) =>
                 (gr_result.feedback[i + 1].verdict = "correct"
                    <=> Lower(Strip(gr_user_answers[GapKey(i)]))
                          = Lower(gr_correct_answers[i + 1]))
        /\ gr_result.score >= Cardinality(CaseOnlyGaps)

\* C8 witness: correct word "Cat", answer "cat", score 1 of 1.
C8_Witness ==
    /\ gr_pc = "done"
    /\ gr_correct_answers = <<T_Cat>>
    /\ GapKey(0) \in DOMAIN gr_user_answers
    /\ gr_user_answers[GapKey(0)] = T_cat
    /\ CaseOnlyGaps = {0}
    /\ gr_result.score = 1
    /\ gr_result.is_complete

(***************************************************************************)
(* Claims about get_word_info_from_gemini (specification SpecSelect)       *)
(***************************************************************************)
Returned == sel_pc = "done" /\ sel_result.outcome = "returned"

\* the list literal_eval gave for the response of the call
ParsedList == ParseResponse(Strip(sel_response.text)).extracted_words_from_api

\* s can be obtained from t by deleting elements
RECURSIVE IsSubsequence(_, _)
IsSubsequence(s, t) ==
    IF s = <<>> THEN TRUE
    ELSE IF t = <<>> THEN FALSE
    ELSE IF Head(s) = Head(t) THEN IsSubsequence(Tail(s), Tail(t))
    ELSE IsSubsequence(s, Tail(t))

\* C9: no two words of the returned list are equal when compared
\* case-insensitively.
C9_CaseInsensitiveDedup ==
    Returned =>
        \A i, j \in 1..Len(sel_result.original) :
            i # j => Lower(sel_result.original[i]) # Lower(sel_result.original[j])

\* C10: the returned words are a subsequence of the whole words of the
\* passage in left-to-right order, each matches a word of the response
\* case-insensitively, a response word that is no whole word of the passage
\* matches no returned word, and every reordering of the response gives the
\* same list.
C10_PassageOrderSubsequence ==
    Returned =>
        LET words == sel_result.original
            all_words == FindAll(sel_text)
        IN /\ IsSubsequence(words, all_words)
           /\ sel_result.shuffled = words
           /\ \A i \in 1..Len(words) :
                \E j \in 1..Len(ParsedList) : Lower(ParsedList[j].chars) = Lower(words[i])
           /\ \A j \in 1..Len(ParsedList) :
                LET hits == {k \in 1..Len(all_words) :
                                Lower(all_words[k]) = Lower(ParsedList[j].chars)}
                IN IF hits = {}
                   THEN \A i \in 1..Len(words) : Lower(words[i]) # Lower(ParsedList[j].chars)
                   ELSE \E i \in 1..Len(words) :
                           words[i] = all_words[CHOOSE k \in hits : \A h \in hits : k <= h]
           /\ \A reordered \in Reorderings(ParsedList) :
                ExtractWords(all_words, reordered, <<>>) = words

\* C10 witness: the response names two passage words in the opposite of their
\* passage order; they are returned in passage order.
C10_Witness ==
    /\ Returned
    /\ Len(ParsedList) = 2
    /\ Len(sel_result.original) = 2
    /\ sel_result.original[1] = ParsedList[2].chars
    /\ sel_result.original[2] = ParsedList[1].chars
    /\ ParsedList[1].chars # ParsedList[2].chars

(***************************************************************************)
(* More claims about grading (specification SpecGrade)                     *)
(***************************************************************************)
\* the gaps whose stripped, non-empty answer equals the correct word after
\* lower-casing
MatchingGaps ==
    {i \in 0..(Len(gr_correct_answers) - 1) :
        /\ ~Unanswered(gr_user_answers, i)
        /\ Lower(Strip(gr_user_answers[GapKey(i)])) = Lower(gr_correct_answers[i + 1])}

\* the verdict the correct answers and the answer dict determine for gap i
ExpectedVerdict(i) ==
    IF i \in UnansweredGaps THEN "unanswered"
    ELSE IF i \in MatchingGaps THEN "correct" ELSE "incorrect"

\* C11: the score is the number of gaps whose non-empty answer matches, so
\* it lies in 0..n, and score, feedback and completeness are determined by
\* the correct answers and the answer dict alone, so that grading the same
\* inputs again gives the same result.
C11_ScoreIsMatchCount ==
    gr_pc = "done" =>
        /\ gr_result.score = Cardinality(MatchingGaps)
        /\ gr_result.score >= 0
        /\ gr_result.score <= Len(gr_correct_answers)
        /\ Len(gr_result.feedback) = Len(gr_correct_answers)
        /\ \A i \in 0..(Len(gr_correct_answers) - 1) :
              /\ gr_result.feedback[i + 1].gap = i + 1
              /\ gr_result.feedback[i + 1].verdict = ExpectedVerdict(i)
        /\ gr_result.is_complete = (UnansweredGaps = {})

\* C11 witness: two gaps, one answer matches and one is wrong: score 1 of 2.
C11_Witness ==
    /\ gr_pc = "done"
    /\ Len(gr_correct_answers) = 2
    /\ Cardinality(MatchingGaps) = 1
    /\ UnansweredGaps = {}
    /\ gr_result.score = 1
    /\ gr_result.is_complete

(***************************************************************************)
(* More claims about the session (specification Spec)                      *)
(***************************************************************************)
\* the messages a run of the generate handler can end with
GenerateOutcomes == GenerateCalled \cup {"warning_empty_input", "error_no_key"}

\* C12: when the generate button is pressed while the passage is empty or
\* holds only whitespace, the handler shows the warning, sends no request to
\* the service, and leaves every session key as it was
C12_EmptyPassageNoCall ==
    [][(outcome' \in GenerateOutcomes /\ Strip(user_input') = <<>>)
          => /\ outcome' = "warning_empty_input"
             /\ ~service_called'
             /\ response' = response
             /\ UNCHANGED sessionVars]_vars

\* a whitespace-only passage was submitted while a test was running, and the
\* test is still there
C12_Witness ==
    /\ outcome = "warning_empty_input"
    /\ user_input = T_space
    /\ ~service_called
    /\ test_started
    /\ correct_answers # <<>>

DistinctEntries == {Lower(w) : w \in Range(gt_words_to_hide)}

\* C14: every entry of the words to hide is used up by at most one passage
\* occurrence under case-insensitive matching, so there are never more gaps
\* than case-insensitively distinct entries
C14_GapsBoundedByEntries ==
    gt_pc = "done" => Len(gt_correct_positions) <= Cardinality(DistinctEntries)

\* what a generate action produces and nothing later writes
gapData == <<test_started, correct_answers, shuffled_words, gap_text_display,
             extracted_words_original_order>>

\* C15: after generation the gap data is immutable: an answer edit changes
\* only user_answers, and a grade action changes only score, feedback and
\* is_complete; gap_text_display, correct_answers and the extracted word list
\* change only in a generate action
C15_GapDataImmutable ==
    [][/\ outcome' = "answer_saved"
              => UNCHANGED <<gapData, score, feedback, is_complete>>
       /\ outcome' = "graded" => UNCHANGED <<gapData, user_answers>>
       /\ outcome' \notin GenerateOutcomes => UNCHANGED gapData]_vars

\* a test was graded while one of its answers held only a blank
C15_Witness ==
    /\ outcome = "graded"
    /\ score # None
    /\ \E k \in DOMAIN user_answers : user_answers[k] = T_space
    /\ \E k \in DOMAIN user_answers : user_answers[k] = T_the

\* the gaps of the running test, by what the answer set holds for them now
SessionGaps == 0..(Len(correct_answers) - 1)
SessionUnanswered == {i \in SessionGaps : Unanswered(user_answers, i)}
SessionMatching ==
    {i \in SessionGaps \ SessionUnanswered :
        Lower(Strip(user_answers[GapKey(i)])) = Lower(correct_answers[i + 1])}

\* the feedback line gap i gets from the answer set as it is now
SessionLine(i) ==
    IF i \in SessionUnanswered
    THEN [gap |-> i + 1, verdict |-> "unanswered"]
    ELSE IF i \in SessionMatching
    THEN [gap |-> i + 1, verdict |-> "correct",
          user_word |-> Strip(user_answers[GapKey(i)])]
    ELSE [gap |-> i + 1, verdict |-> "incorrect",
          user_word |-> Strip(user_answers[GapKey(i)]),
          correct_word |-> correct_answers[i + 1]]

\* C16: right after a grade action, score, feedback and is_complete are all
\* three the values derived from correct_answers and the answer set of that
\* grade action; none of them is left over from an earlier grading
C16_ScoreRecomputedWhole ==
    outcome = "graded"
        => /\ score = Some(Cardinality(SessionMatching))
           /\ is_complete = (SessionUnanswered = {})
           /\ feedback = [k \in 1..Len(correct_answers) |-> SessionLine(k - 1)]

\* a grading of two gaps, one answered correctly and one left blank
C16_Witness ==
    /\ outcome = "graded"
    /\ Len(correct_answers) = 2
    /\ score = Some(1)
    /\ ~is_complete
    /\ Cardinality(SessionUnanswered) = 1
    /\ Len(feedback) = 2

\* C17: no response of the service is fatal to the generate action: whatever
\* text comes back, a list whose elements are not strings included, the action
\* ends in a started test or in a handled, reported failure with no gaps,
\* never in an unhandled exception
C17_NoFatalResponse ==
    service_called
        => \/ outcome = "started"
           \/ outcome \in GenerateFailures /\ correct_answers = <<>>

\* C18: after every successful generate action the word list shown for
\* copying equals correct_answers, element by element and in the same order,
\* so every gap's answer is in the shown list and every shown word belongs to
\* exactly one gap
C18_ShownWordsAreAnswers ==
    test_started
        => /\ Len(extracted_words_original_order) = Len(correct_answers)
           /\ \A k \in 1..Len(correct_answers) :
                 extracted_words_original_order[k] = correct_answers[k]

\* a test with two gaps, generated from a response that named the two words
\* in the opposite order
C18_Witness ==
    /\ outcome = "started"
    /\ test_started
    /\ response.kind = "text"
    /\ response.text = FormatList(<<T_cat, T_the>>)
    /\ correct_answers = <<T_the, T_cat>>
    /\ extracted_words_original_order = <<T_the, T_cat>>


\* C19: in every reachable state, test_started is true only if
\* correct_answers is non-empty, and then user_answers has exactly the keys
\* gap_0 .. gap_{n-1} for n = len(correct_answers); and whenever score is not
\* None, test_started is true and feedback has exactly n entries
C19_SessionInvariant ==
    /\ test_started
          => /\ correct_answers # <<>>
             /\ DOMAIN user_answers = {GapKey(i) : i \in SessionGaps}
    /\ score # None
          => /\ test_started
             /\ Len(feedback) = Len(correct_answers)

\* a graded test with two gaps
C19_Witness ==
    /\ test_started
    /\ score # None
    /\ Len(correct_answers) = 2
    /\ Len(feedback) = 2
    /\ DOMAIN user_answers = {GapKey(0), GapKey(1)}

====
